---- MODULE Spec2Model ----
(***************************************************************************)
(* House affordability analyzer: the mortgage engine of src/main.py (down  *)
(* payment keyed by amount) and of src/streamlit_calculator.py (down       *)
(* payment keyed by percentage), with the caller that builds a scenario    *)
(* and calls calculate_monthly_payment, calculate_affordability_metrics    *)
(* and generate_comparison_data.                                           *)
(*                                                                         *)
(* Numbers.  The program computes in Python numbers: int (exact) and       *)
(* float / numpy.float64 (IEEE-754 binary64, round to nearest, ties to     *)
(* even).  The model keeps that arithmetic and narrows its width: a finite *)
(* number is m * 2^e with |m| < 2^Precision (binary64 has 53 bits), every  *)
(* operation is computed exactly and then rounded to nearest, ties to      *)
(* even.  The exponent is unbounded (no overflow, no underflow).  Integers *)
(* of the inputs are below 2^Precision, so int arithmetic on them is exact *)
(* as it is in Python.  A division by zero raises ZeroDivisionError on     *)
(* Python numbers and gives inf / nan once a numpy.float64 is involved;    *)
(* the field np records that a value is a numpy.float64.  Zeros carry no   *)
(* sign: every zero divisor the engine can meet is +0.                     *)
(***************************************************************************)
EXTENDS Integers, Sequences, FiniteSets, TLC

\* Significand width of the model's floats (binary64: 53).
Precision == 11

----------------------------------------------------------------------------
(* Floating point *)

Abs(n) == IF n < 0 THEN -n ELSE n

Sgn(n) == IF n < 0 THEN -1 ELSE IF n = 0 THEN 0 ELSE 1

RECURSIVE BitLen(_)
BitLen(n) == IF n = 0 THEN 0 ELSE 1 + BitLen(n \div 2)

\* The canonical form of m * 2^e: m odd, or 0 * 2^0.
RECURSIVE Canon(_, _, _)
Canon(m, e, np) ==
  IF m = 0 THEN [k |-> "fin", m |-> 0, e |-> 0, np |-> np]
  ELSE IF m % 2 = 0 THEN Canon(m \div 2, e + 1, np)
  ELSE [k |-> "fin", m |-> m, e |-> e, np |-> np]

Inf(s, np) == [k |-> "inf", m |-> s, e |-> 0, np |-> np]

NaN(np) == [k |-> "nan", m |-> 0, e |-> 0, np |-> np]

\* A raised ZeroDivisionError, carried through the rest of the expression.
ZDE == [k |-> "zde", m |-> 0, e |-> 0, np |-> FALSE]

\* s * mag * 2^e (and, with sticky, a little more in magnitude) rounded to
\* Precision bits, to nearest, ties to even.
RoundTo(s, mag, e, sticky, np) ==
  LET b == BitLen(mag)
  IN IF b <= Precision THEN Canon(s * mag, e, np)
     ELSE LET k    == b - Precision
              q    == mag \div (2 ^ k)
              r    == mag % (2 ^ k)
              half == 2 ^ (k - 1)
              up   == r > half \/ (r = half /\ (sticky \/ q % 2 = 1))
          IN Canon(s * (IF up THEN q + 1 ELSE q), e + k, np)

\* A Python int as a number of the model.
F(n) == RoundTo(Sgn(n), Abs(n), 0, FALSE, FALSE)

\* The same value as a numpy.float64.
AsNp(a) == [a EXCEPT !.np = TRUE]

IsZero(a) == a.k = "fin" /\ a.m = 0

\* Position of the leading bit of a finite non-zero number.
Lead(a) == a.e + BitLen(Abs(a.m)) - 1

Neg(a) == IF a.k \in {"nan", "zde"} THEN a ELSE [a EXCEPT !.m = -a.m]

Add(a, b) ==
  LET np == a.np \/ b.np
  IN IF a.k = "zde" \/ b.k = "zde" THEN ZDE
     ELSE IF a.k = "nan" \/ b.k = "nan" THEN NaN(np)
     ELSE IF a.k = "inf" /\ b.k = "inf"
          THEN IF a.m = b.m THEN Inf(a.m, np) ELSE NaN(np)
     ELSE IF a.k = "inf" THEN Inf(a.m, np)
     ELSE IF b.k = "inf" THEN Inf(b.m, np)
     ELSE IF a.m = 0 THEN [b EXCEPT !.np = np]
     ELSE IF b.m = 0 THEN [a EXCEPT !.np = np]
     ELSE IF Lead(a) - Lead(b) >= Precision + 2 THEN [a EXCEPT !.np = np]
     ELSE IF Lead(b) - Lead(a) >= Precision + 2 THEN [b EXCEPT !.np = np]
     ELSE LET emin == IF a.e < b.e THEN a.e ELSE b.e
              sum  == a.m * (2 ^ (a.e - emin)) + b.m * (2 ^ (b.e - emin))
          IN RoundTo(Sgn(sum), Abs(sum), emin, FALSE, np)

Sub(a, b) == Add(a, Neg(b))

Mul(a, b) ==
  LET np == a.np \/ b.np
  IN IF a.k = "zde" \/ b.k = "zde" THEN ZDE
     ELSE IF a.k = "nan" \/ b.k = "nan" THEN NaN(np)
     ELSE IF a.k = "inf" \/ b.k = "inf"
          THEN IF a.m = 0 \/ b.m = 0 THEN NaN(np)
               ELSE Inf(Sgn(a.m) * Sgn(b.m), np)
     ELSE RoundTo(Sgn(a.m) * Sgn(b.m), Abs(a.m) * Abs(b.m), a.e + b.e, FALSE, np)

\* True division.  x / 0 raises ZeroDivisionError on Python numbers; with a
\* numpy.float64 operand it is nan (0 / 0) or an infinity.
Div(a, b) ==
  LET np == a.np \/ b.np
  IN IF a.k = "zde" \/ b.k = "zde" THEN ZDE
     ELSE IF a.k = "nan" \/ b.k = "nan" THEN NaN(np)
     ELSE IF a.k = "inf"
          THEN IF b.k = "inf" THEN NaN(np)
               ELSE Inf(IF b.m < 0 THEN -a.m ELSE a.m, np)
     ELSE IF b.k = "inf" THEN Canon(0, 0, np)
     ELSE IF b.m = 0
          THEN IF ~np THEN ZDE
               ELSE IF a.m = 0 THEN NaN(np) ELSE Inf(Sgn(a.m), np)
     ELSE IF a.m = 0 THEN Canon(0, 0, np)
     ELSE LET sa  == Precision - BitLen(Abs(a.m))
              sb  == Precision - BitLen(Abs(b.m))
              num == Abs(a.m) * (2 ^ (sa + Precision + 2))
              den == Abs(b.m) * (2 ^ sb)
          IN RoundTo(Sgn(a.m) * Sgn(b.m), num \div den,
                     (a.e - sa - Precision - 2) - (b.e - sb),
                     num % den # 0, np)

One == F(1)

\* x ** n for an int n >= 0, by repeated squaring, each product rounded.
RECURSIVE PowN(_, _)
PowN(x, n) ==
  IF n = 0 THEN [One EXCEPT !.np = x.np]
  ELSE IF n = 1 THEN x
  ELSE LET h == PowN(x, n \div 2)
           sq == Mul(h, h)
       IN IF n % 2 = 0 THEN sq ELSE Mul(sq, x)

\* x ** n for an int n: a negative power is the reciprocal (0.0 ** -1
\* raises ZeroDivisionError in Python and is inf in numpy, as Div's).
Pow(x, n) ==
  IF x.k = "zde" THEN ZDE
  ELSE IF n >= 0 THEN PowN(x, n)
  ELSE Div([One EXCEPT !.np = x.np], PowN(x, -n))

\* a <= b; any comparison with nan is false.
Leq(a, b) ==
  IF a.k = "nan" \/ b.k = "nan" THEN FALSE
  ELSE IF a.k = "inf" THEN a.m < 0 \/ (b.k = "inf" /\ b.m > 0)
  ELSE IF b.k = "inf" THEN b.m > 0
  ELSE Sub(a, b).m <= 0

\* a == b as Python compares numbers (the np tag is no part of the value).
NumEq(a, b) ==
  /\ a.k # "nan" /\ b.k # "nan"
  /\ a.k = b.k /\ a.m = b.m /\ a.e = b.e

----------------------------------------------------------------------------
(* src/main.py: the engine keyed by down payment amount.  A value that the
   code computes once and uses several times is a parameter of the
   definition that uses it, so every statement is written once. *)

\* The fixed thresholds of the affordable flag.
FrontEndLimit == 28

BackEndLimit == 36

\* The number of samples np.linspace is asked for on each axis.
PointsPerAxis == 10

MortgageScenario(price, down, rate, years, income, debts, tax, ins, hoa) ==
  [home_price          |-> price,
   down_payment_amount |-> down,
   interest_rate       |-> rate,
   loan_term_years     |-> years,
   monthly_income      |-> income,
   monthly_debts       |-> debts,
   property_tax_annual |-> tax,
   insurance_annual    |-> ins,
   hoa_monthly         |-> hoa]

\* principal * (monthly_rate * growth) / (growth - 1), growth being
\* (1 + monthly_rate) ** num_payments.
AmortizedPayment(principal, monthly_rate, growth) ==
  Div(Mul(principal, Mul(monthly_rate, growth)), Sub(growth, One))

\* The branch of calculate_monthly_payment for a rate other than 0.
StandardPayment(principal, monthly_rate, num_payments) ==
  AmortizedPayment(principal, monthly_rate,
                   Pow(Add(One, monthly_rate), num_payments))

\* principal, annual_rate: numbers; years: an int.
\* Mutant: the straight-line branch divides by the years, not the months.
calculate_monthly_payment_by_years(principal, annual_rate, years) ==
  IF IsZero(annual_rate)
  THEN Div(principal, F(years))
  ELSE StandardPayment(principal, Div(Div(annual_rate, F(12)), F(100)), years * 12)

calculate_monthly_payment(principal, annual_rate, years) ==
  IF IsZero(annual_rate)
  THEN Div(principal, F(years * 12))
  ELSE StandardPayment(principal, Div(Div(annual_rate, F(12)), F(100)),
                       years * 12)

\* What a call gives back: the value returned, or the exception raised.
Returned(v) == [raised |-> "none", value |-> v]

Raised(exc) == [raised |-> exc, value |-> <<>>]

\* Mutant: the thresholds excluded (< in place of <=).
Affordable_exclusive(front_end_ratio, back_end_ratio) ==
  /\ ~Leq(F(FrontEndLimit), front_end_ratio)
  /\ ~Leq(F(BackEndLimit), back_end_ratio)

\* The affordable flag of a metrics dict.
Affordable(front_end_ratio, back_end_ratio) ==
  Leq(front_end_ratio, F(FrontEndLimit)) /\ Leq(back_end_ratio, F(BackEndLimit))

\* The dict calculate_affordability_metrics returns (main.py adds
\* down_payment_percent to it).
MetricsDict(loan_amount, down_payment, monthly_pi, monthly_property_tax, monthly_insurance, total_monthly_payment, front_end_ratio, back_end_ratio, total_payments) ==
  [loan_amount           |-> loan_amount,
   down_payment          |-> down_payment,
   monthly_pi            |-> monthly_pi,
   monthly_property_tax  |-> monthly_property_tax,
   monthly_insurance     |-> monthly_insurance,
   total_monthly_payment |-> total_monthly_payment,
   front_end_ratio       |-> front_end_ratio,
   back_end_ratio        |-> back_end_ratio,
   total_payments        |-> total_payments,
   total_interest        |-> Sub(total_payments, loan_amount),
   affordable            |-> Affordable(front_end_ratio, back_end_ratio)]

\* Mutant: the monthly debts counted in the front-end ratio as well.
RatiosAndTotals_debts_in_front(scenario, loan_amount, down_payment, monthly_pi, monthly_property_tax, monthly_insurance, total_monthly_payment) ==
  MetricsDict(loan_amount, down_payment, monthly_pi, monthly_property_tax,
              monthly_insurance, total_monthly_payment,
              Mul(Div(Add(total_monthly_payment, scenario.monthly_debts),
                      scenario.monthly_income), F(100)),
              Mul(Div(Add(total_monthly_payment, scenario.monthly_debts),
                      scenario.monthly_income), F(100)),
              Mul(Mul(monthly_pi, F(scenario.loan_term_years)), F(12)))

\* The debt-to-income ratios and the total of the payments.
RatiosAndTotals(scenario, loan_amount, down_payment, monthly_pi, monthly_property_tax, monthly_insurance, total_monthly_payment) ==
  MetricsDict(loan_amount, down_payment, monthly_pi, monthly_property_tax,
              monthly_insurance, total_monthly_payment,
              Mul(Div(total_monthly_payment, scenario.monthly_income), F(100)),
              Mul(Div(Add(total_monthly_payment, scenario.monthly_debts),
                      scenario.monthly_income), F(100)),
              Mul(Mul(monthly_pi, F(scenario.loan_term_years)), F(12)))

\* The total monthly payment.
TotalMonthly(scenario, loan_amount, down_payment, monthly_pi, monthly_property_tax, monthly_insurance) ==
  RatiosAndTotals(scenario, loan_amount, down_payment, monthly_pi,
                  monthly_property_tax, monthly_insurance,
                  Add(Add(Add(monthly_pi, monthly_property_tax),
                          monthly_insurance), scenario.hoa_monthly))

\* Everything calculate_affordability_metrics computes after loan_amount and
\* down_payment (the same statements in both programs).
MetricsFor(scenario, loan_amount, down_payment) ==
  TotalMonthly(scenario, loan_amount, down_payment,
               calculate_monthly_payment(loan_amount, scenario.interest_rate,
                                         scenario.loan_term_years),
               Div(scenario.property_tax_annual, F(12)),
               Div(scenario.insurance_annual, F(12)))

\* Whether one of the divisions that computed metrics m raised.
DivisionRaised(m) ==
  \E x \in {m.loan_amount, m.down_payment, m.monthly_pi,
            m.monthly_property_tax, m.monthly_insurance,
            m.total_monthly_payment, m.front_end_ratio, m.back_end_ratio,
            m.total_payments, m.total_interest} : x.k = "zde"

\* The return of main.py's calculate_affordability_metrics, or the
\* ZeroDivisionError of one of its divisions.
MetricsOutcome(m, down_payment_percent) ==
  IF down_payment_percent.k = "zde" \/ DivisionRaised(m)
  THEN Raised("ZeroDivisionError")
  ELSE Returned([loan_amount           |-> m.loan_amount,
                 down_payment          |-> m.down_payment,
                 down_payment_percent  |-> down_payment_percent,
                 monthly_pi            |-> m.monthly_pi,
                 monthly_property_tax  |-> m.monthly_property_tax,
                 monthly_insurance     |-> m.monthly_insurance,
                 total_monthly_payment |-> m.total_monthly_payment,
                 front_end_ratio       |-> m.front_end_ratio,
                 back_end_ratio        |-> m.back_end_ratio,
                 total_payments        |-> m.total_payments,
                 total_interest        |-> m.total_interest,
                 affordable            |-> m.affordable])

\* Mutant: the loan amount is the down payment amount less the home price.
calculate_affordability_metrics_reversed(scenario) ==
  MetricsOutcome(
    MetricsFor(scenario,
               Sub(scenario.down_payment_amount, scenario.home_price),
               scenario.down_payment_amount),
    Mul(Div(scenario.down_payment_amount, scenario.home_price), F(100)))

calculate_affordability_metrics(scenario) ==
  MetricsOutcome(
    MetricsFor(scenario,
               Sub(scenario.home_price, scenario.down_payment_amount),
               scenario.down_payment_amount),
    Mul(Div(scenario.down_payment_amount, scenario.home_price), F(100)))

\* Sample i (from 1) of np.linspace, given delta = stop - start and
\* step = delta / div.
LinspaceSample(start, stop, num, div, delta, step, i) ==
  IF i = num THEN AsNp(stop)
  ELSE Add(IF IsZero(step) THEN Mul(Div(AsNp(F(i - 1)), F(div)), delta)
           ELSE Mul(AsNp(F(i - 1)), step),
           AsNp(start))

LinspaceBy(start, stop, num, div, delta) ==
  [i \in 1..num |->
     LinspaceSample(start, stop, num, div, delta, Div(delta, F(div)), i)]

\* Mutant: the spacing of np.linspace(..., endpoint=False).
Linspace_open(start, stop, num) ==
  LinspaceBy(start, stop, num, num, Sub(AsNp(stop), AsNp(start)))

\* np.linspace(start, stop, num), endpoint included: num > 1 samples as
\* numpy.float64, sample i (from 0) being i * step + start with
\* step = (stop - start) / (num - 1), and the last one set to stop itself.
Linspace(start, stop, num) ==
  LinspaceBy(start, stop, num, num - 1, Sub(AsNp(stop), AsNp(start)))

\* The literals 0.01 and 0.003: the floats nearest to 1/100 and 3/1000.
PropertyTaxRate == Div(F(1), F(100))

InsuranceRate == Div(F(3), F(1000))

\* One record of the comparison data.
ComparisonRow(type, x, metrics) ==
  [scenario_type   |-> type,
   variable_value  |-> x,
   monthly_payment |-> metrics.total_monthly_payment,
   front_end_ratio |-> metrics.front_end_ratio,
   affordable      |-> metrics.affordable]

\* Mutant: the price axis keeps the tax and insurance of the base scenario.
PriceScenario_base_costs(base_scenario, price) ==
  MortgageScenario(price, base_scenario.down_payment_amount,
                   base_scenario.interest_rate, base_scenario.loan_term_years,
                   base_scenario.monthly_income, base_scenario.monthly_debts,
                   base_scenario.property_tax_annual,
                   base_scenario.insurance_annual, base_scenario.hoa_monthly)

\* The scenario built for one sample of the price axis.
PriceScenario(base_scenario, price) ==
  MortgageScenario(price, base_scenario.down_payment_amount,
                   base_scenario.interest_rate, base_scenario.loan_term_years,
                   base_scenario.monthly_income, base_scenario.monthly_debts,
                   Mul(price, PropertyTaxRate), Mul(price, InsuranceRate),
                   base_scenario.hoa_monthly)

\* Mutant: the rate axis leaves the last three fields at their defaults.
RateScenario_defaults(base_scenario, rate) ==
  MortgageScenario(base_scenario.home_price, base_scenario.down_payment_amount,
                   rate, base_scenario.loan_term_years,
                   base_scenario.monthly_income, base_scenario.monthly_debts,
                   F(0), F(0), F(0))

\* The scenario built for one sample of the rate axis.
RateScenario(base_scenario, rate) ==
  MortgageScenario(base_scenario.home_price, base_scenario.down_payment_amount,
                   rate, base_scenario.loan_term_years,
                   base_scenario.monthly_income, base_scenario.monthly_debts,
                   base_scenario.property_tax_annual,
                   base_scenario.insurance_annual, base_scenario.hoa_monthly)

\* The scenario built for one sample of the down payment axis.
DownPaymentScenario(base_scenario, dp_amount) ==
  MortgageScenario(base_scenario.home_price, dp_amount,
                   base_scenario.interest_rate, base_scenario.loan_term_years,
                   base_scenario.monthly_income, base_scenario.monthly_debts,
                   base_scenario.property_tax_annual,
                   base_scenario.insurance_annual, base_scenario.hoa_monthly)

\* The index of the first call that raised, 0 when none did.
FirstRaised(calls) ==
  IF \A i \in 1..Len(calls) : calls[i].raised = "none" THEN 0
  ELSE CHOOSE i \in 1..Len(calls) :
         /\ calls[i].raised # "none"
         /\ \A j \in 1..(i - 1) : calls[j].raised = "none"

\* The list the three loops of generate_comparison_data append to: calls[i]
\* is what calculate_affordability_metrics gave for sample i of the samples
\* xs, types[i] its scenario_type.  A call that raises ends the whole call.
ComparisonData(types, xs, calls) ==
  IF FirstRaised(calls) # 0
  THEN Raised(calls[FirstRaised(calls)].raised)
  ELSE Returned([i \in 1..Len(calls) |->
                   ComparisonRow(types[i], xs[i], calls[i].value)])

AxisTypes ==
  [i \in 1..PointsPerAxis |-> "Price Variation"]
  \o [i \in 1..PointsPerAxis |-> "Rate Variation"]
  \o [i \in 1..PointsPerAxis |-> "Down Payment Variation"]

\* The calls of the three loops, in order.
ComparisonCalls(base_scenario, price_values, rate_values, dp_values) ==
  [i \in 1..PointsPerAxis |->
     calculate_affordability_metrics(
       PriceScenario(base_scenario, price_values[i]))]
  \o [i \in 1..PointsPerAxis |->
        calculate_affordability_metrics(
          RateScenario(base_scenario, rate_values[i]))]
  \o [i \in 1..PointsPerAxis |->
        calculate_affordability_metrics(
          DownPaymentScenario(base_scenario, dp_values[i]))]

\* The scenarios the three loops construct, in order, one per sample.
DerivedScenarios(base_scenario, price_values, rate_values, dp_values) ==
  [i \in 1..PointsPerAxis |-> PriceScenario(base_scenario, price_values[i])]
  \o [i \in 1..PointsPerAxis |-> RateScenario(base_scenario, rate_values[i])]
  \o [i \in 1..PointsPerAxis |->
        DownPaymentScenario(base_scenario, dp_values[i])]

\* The scenarios constructed by the time the loops end: all of them, or those
\* up to the one whose evaluation raised.
ScenariosBuilt(scenarios, calls) ==
  IF FirstRaised(calls) = 0 THEN scenarios
  ELSE SubSeq(scenarios, 1, FirstRaised(calls))

\* One run of the three loops: what the call gives back (outcome) and the
\* scenarios it constructed on the way (scenarios).
ComparisonRun(types, xs, scenarios, calls) ==
  [outcome   |-> ComparisonData(types, xs, calls),
   scenarios |-> ScenariosBuilt(scenarios, calls)]

ComparisonRunOf(base_scenario, price_values, rate_values, dp_values) ==
  ComparisonRun(
    AxisTypes, price_values \o rate_values \o dp_values,
    DerivedScenarios(base_scenario, price_values, rate_values, dp_values),
    ComparisonCalls(base_scenario, price_values, rate_values, dp_values))

\* generate_comparison_data with its local variable scenario.
comparison_run(base_scenario, price_range, rate_range, down_payment_range) ==
  ComparisonRunOf(base_scenario,
                  Linspace(price_range[1], price_range[2], PointsPerAxis),
                  Linspace(rate_range[1], rate_range[2], PointsPerAxis),
                  Linspace(down_payment_range[1], down_payment_range[2],
                           PointsPerAxis))

\* Ranges are pairs <<min, max>> of numbers.
generate_comparison_data(base_scenario, price_range, rate_range, down_payment_range) ==
  comparison_run(base_scenario, price_range, rate_range,
                 down_payment_range).outcome

----------------------------------------------------------------------------
(* src/streamlit_calculator.py: the engine keyed by down payment percentage *)

MortgageScenario_streamlit(price, percent, rate, years, income, debts, tax, ins, hoa) ==
  [home_price           |-> price,
   down_payment_percent |-> percent,
   interest_rate        |-> rate,
   loan_term_years      |-> years,
   monthly_income       |-> income,
   monthly_debts        |-> debts,
   property_tax_annual  |-> tax,
   insurance_annual     |-> ins,
   hoa_monthly          |-> hoa]

\* The return of streamlit_calculator.py's calculate_affordability_metrics,
\* or the ZeroDivisionError of one of its divisions.
MetricsOutcome_streamlit(m) ==
  IF DivisionRaised(m) THEN Raised("ZeroDivisionError") ELSE Returned(m)

\* Mutant: the loan amount is the percentage of the price that is paid down.
calculate_affordability_metrics_streamlit_paid(scenario) ==
  MetricsOutcome_streamlit(
    MetricsFor(scenario,
               Mul(scenario.home_price,
                   Div(scenario.down_payment_percent, F(100))),
               Div(Mul(scenario.home_price, scenario.down_payment_percent),
                   F(100))))

calculate_affordability_metrics_streamlit(scenario) ==
  MetricsOutcome_streamlit(
    MetricsFor(scenario,
               Mul(scenario.home_price,
                   Sub(One, Div(scenario.down_payment_percent, F(100)))),
               Div(Mul(scenario.home_price, scenario.down_payment_percent),
                   F(100))))

PriceScenario_streamlit(base_scenario, price) ==
  MortgageScenario_streamlit(
    price, base_scenario.down_payment_percent,
    base_scenario.interest_rate, base_scenario.loan_term_years,
    base_scenario.monthly_income, base_scenario.monthly_debts,
    Mul(price, PropertyTaxRate), Mul(price, InsuranceRate),
    base_scenario.hoa_monthly)

RateScenario_streamlit(base_scenario, rate) ==
  MortgageScenario_streamlit(
    base_scenario.home_price, base_scenario.down_payment_percent,
    rate, base_scenario.loan_term_years,
    base_scenario.monthly_income, base_scenario.monthly_debts,
    base_scenario.property_tax_annual,
    base_scenario.insurance_annual, base_scenario.hoa_monthly)

DownPaymentScenario_streamlit(base_scenario, dp) ==
  MortgageScenario_streamlit(
    base_scenario.home_price, dp,
    base_scenario.interest_rate, base_scenario.loan_term_years,
    base_scenario.monthly_income, base_scenario.monthly_debts,
    base_scenario.property_tax_annual,
    base_scenario.insurance_annual, base_scenario.hoa_monthly)

ComparisonCalls_streamlit(base_scenario, price_values, rate_values, dp_values) ==
  [i \in 1..PointsPerAxis |->
     calculate_affordability_metrics_streamlit(
       PriceScenario_streamlit(base_scenario, price_values[i]))]
  \o [i \in 1..PointsPerAxis |->
        calculate_affordability_metrics_streamlit(
          RateScenario_streamlit(base_scenario, rate_values[i]))]
  \o [i \in 1..PointsPerAxis |->
        calculate_affordability_metrics_streamlit(
          DownPaymentScenario_streamlit(base_scenario, dp_values[i]))]

DerivedScenarios_streamlit(base_scenario, price_values, rate_values, dp_values) ==
  [i \in 1..PointsPerAxis |->
     PriceScenario_streamlit(base_scenario, price_values[i])]
  \o [i \in 1..PointsPerAxis |->
        RateScenario_streamlit(base_scenario, rate_values[i])]
  \o [i \in 1..PointsPerAxis |->
        DownPaymentScenario_streamlit(base_scenario, dp_values[i])]

ComparisonRunOf_streamlit(base_scenario, price_values, rate_values, dp_values) ==
  ComparisonRun(
    AxisTypes, price_values \o rate_values \o dp_values,
    DerivedScenarios_streamlit(base_scenario, price_values, rate_values,
                               dp_values),
    ComparisonCalls_streamlit(base_scenario, price_values, rate_values,
                              dp_values))

comparison_run_streamlit(base_scenario, price_range, rate_range, down_payment_range) ==
  ComparisonRunOf_streamlit(
    base_scenario,
    Linspace(price_range[1], price_range[2], PointsPerAxis),
    Linspace(rate_range[1], rate_range[2], PointsPerAxis),
    Linspace(down_payment_range[1], down_payment_range[2], PointsPerAxis))

generate_comparison_data_streamlit(base_scenario, price_range, rate_range, down_payment_range) ==
  comparison_run_streamlit(base_scenario, price_range, rate_range,
                           down_payment_range).outcome

----------------------------------------------------------------------------
(* The caller: one program (app), the scenario it built, and the call it
   made last with what the call gave back. *)

VARIABLES app, scenario, result, derived, previous, session

vars == <<app, scenario, result, derived, previous, session>>

\* Inputs (whole amounts, all below 2^Precision).
HomePrices == {0, 440, 1000}

DownPayments == {0, 200, 1000}

DownPercents == {14, 20, 100}

Rates == {0, 6}

Terms == {-1, 0, 1, 15}

\* <<monthly_income, monthly_debts, property_tax_annual, insurance_annual,
\*   hoa_monthly>>
Households ==
  { <<-100, 0, 0, 0, 0>>, <<0, 0, 0, 0, 0>>, <<100, 0, 0, 0, 0>>,
    <<100, 8, 84, 0, 1>>, <<100, 9, 84, 0, 1>>, <<100, 8, 84, 12, 1>> }

Principals == {0, 240, 1000}

\* <<price_range, rate_range, down_payment_range>> given to the amount-keyed
\* generate_comparison_data.
SweepRanges ==
  { << <<700, 1300>>, <<4, 8>>, <<50, 800>> >>,
    << <<100, 100>>, <<6, 6>>, <<200, 200>> >>,
    << <<1300, 700>>, <<8, 4>>, <<800, 50>> >>,
    << <<0, 900>>, <<0, 9>>, <<0, 900>> >> }

\* The same for the percentage-keyed one: the third range is in percent.
SweepRanges_streamlit ==
  { << <<700, 1300>>, <<4, 8>>, <<5, 30>> >>,
    << <<100, 100>>, <<6, 6>>, <<20, 20>> >>,
    << <<1300, 700>>, <<8, 4>>, <<30, 5>> >>,
    << <<0, 900>>, <<0, 9>>, <<0, 90>> >> }

Scenarios ==
  { MortgageScenario(F(p), F(d), F(r), y, F(h[1]), F(h[2]),
                     F(h[3]), F(h[4]), F(h[5])) :
      p \in HomePrices, d \in DownPayments, r \in Rates, y \in Terms,
      h \in Households }

Scenarios_streamlit ==
  { MortgageScenario_streamlit(F(p), F(d), F(r), y, F(h[1]), F(h[2]),
                               F(h[3]), F(h[4]), F(h[5])) :
      p \in HomePrices, d \in DownPercents, r \in Rates, y \in Terms,
      h \in Households }

NoCall == [op |-> "none", args |-> <<>>, raised |-> "none", value |-> <<>>]

\* st.session_state before the first run of the page: no key set.
NoSession == [keys |-> {}]

Call(op, args, outcome) ==
  [op |-> op, args |-> args, raised |-> outcome.raised, value |-> outcome.value]

Init ==
  /\ \/ app = "main" /\ scenario \in Scenarios
     \/ app = "streamlit" /\ scenario \in Scenarios_streamlit
  /\ result = NoCall
  /\ derived = <<>>
  /\ previous = NoCall
  /\ session = NoSession

\* MortgageModel.calculate_monthly_payment(principal, annual_rate, years),
\* called for some principal at the scenario's rate and term; a raised
\* ZeroDivisionError leaves the function.
MonthlyPayment(principal) ==
  /\ result.op = "none"
  /\ LET payment == calculate_monthly_payment(
                      F(principal), scenario.interest_rate,
                      scenario.loan_term_years)
     IN result' = Call("calculate_monthly_payment", <<principal>>,
                       IF payment.k = "zde" THEN Raised("ZeroDivisionError")
                       ELSE Returned(payment))
  /\ UNCHANGED <<app, scenario, derived, previous, session>>

\* main.py: MortgageModel.calculate_affordability_metrics(scenario)
Evaluate ==
  /\ result.op = "none"
  /\ app = "main"
  /\ result' = Call("calculate_affordability_metrics", <<>>,
                    calculate_affordability_metrics(scenario))
  /\ UNCHANGED <<app, scenario, derived, previous, session>>

\* streamlit_calculator.py: MortgageModel.calculate_affordability_metrics(scenario)
Evaluate_streamlit ==
  /\ result.op = "none"
  /\ app = "streamlit"
  /\ result' = Call("calculate_affordability_metrics", <<>>,
                    calculate_affordability_metrics_streamlit(scenario))
  /\ UNCHANGED <<app, scenario, derived, previous, session>>

\* value > 0 as Python compares (False for nan).
GreaterThanZero(value) == value.k # "nan" /\ ~Leq(value, F(0))

\* metrics.get(key, default) of a metrics dictionary.
MetricsGet(metrics, key, default) ==
  IF key \in DOMAIN metrics THEN metrics[key] ELSE default

\* labels and values of create_payment_breakdown_chart(metrics), zipped.
BreakdownSlices(metrics) ==
  << [label |-> "Principal & Interest", value |-> metrics.monthly_pi],
     [label |-> "Property Tax", value |-> metrics.monthly_property_tax],
     [label |-> "Insurance", value |-> metrics.monthly_insurance],
     [label |-> "HOA", value |-> MetricsGet(metrics, "monthly_hoa", F(0))] >>

\* The filter of create_payment_breakdown_chart: if value > 0.
KeptSlice(slice) == GreaterThanZero(slice.value)

\* create_payment_breakdown_chart(metrics): the slices of the pie, that is
\* filtered_labels and filtered_values.
create_payment_breakdown_chart(metrics) ==
  SelectSeq(BreakdownSlices(metrics), KeptSlice)

\* main() of both programs: payment_chart =
\* create_payment_breakdown_chart(metrics), for the metrics just returned.
PaymentBreakdownChart ==
  /\ result.op = "calculate_affordability_metrics"
  /\ result.raised = "none"
  /\ previous.op = "none"
  /\ result' = Call("create_payment_breakdown_chart", <<result.value>>,
                    Returned(create_payment_breakdown_chart(result.value)))
  /\ UNCHANGED <<app, scenario, derived, previous, session>>

FRange(r) == <<F(r[1]), F(r[2])>>

\* A call of generate_comparison_data has run as run.
Swept(ranges, run) ==
  /\ result' = Call("generate_comparison_data", ranges, run.outcome)
  /\ derived' = run.scenarios

\* Mutant: the sweep writes its samples into the base scenario instead of
\* constructing a scenario per sample.
GenerateComparisons_in_place(ranges) ==
  /\ result.op = "none"
  /\ app = "main"
  /\ Swept(ranges, comparison_run(scenario, FRange(ranges[1]),
                                   FRange(ranges[2]), FRange(ranges[3])))
  /\ scenario' = [scenario EXCEPT !.down_payment_amount = AsNp(F(ranges[3][2]))]
  /\ UNCHANGED <<app, previous, session>>

\* main.py: MortgageModel.generate_comparison_data(scenario, ranges...)
GenerateComparisons(ranges) ==
  /\ result.op = "none"
  /\ app = "main"
  /\ Swept(ranges, comparison_run(scenario, FRange(ranges[1]),
                                   FRange(ranges[2]), FRange(ranges[3])))
  /\ UNCHANGED <<app, scenario, previous, session>>

\* streamlit_calculator.py: MortgageModel.generate_comparison_data(scenario, ranges...)
GenerateComparisons_streamlit(ranges) ==
  /\ result.op = "none"
  /\ app = "streamlit"
  /\ Swept(ranges, comparison_run_streamlit(
                     scenario, FRange(ranges[1]), FRange(ranges[2]),
                     FRange(ranges[3])))
  /\ UNCHANGED <<app, scenario, previous, session>>

\* The caller has used what the call gave back and may call again.
Return ==
  /\ result.op # "none"
  /\ result' = NoCall
  /\ derived' = <<>>
  /\ previous' = NoCall
  /\ UNCHANGED <<app, scenario, session>>

\* What the caller keeps of a call before it repeats it: what the call gave
\* back and the scenarios it constructed.
Earlier(call, scenarios) ==
  [op |-> call.op, args |-> call.args, raised |-> call.raised,
   value |-> call.value, scenarios |-> scenarios]

\* calculate_affordability_metrics of the program that runs.
EvaluateBy(program, s) ==
  IF program = "main" THEN calculate_affordability_metrics(s)
  ELSE calculate_affordability_metrics_streamlit(s)

\* generate_comparison_data of the program that runs.
CompareBy(program, s, ranges) ==
  IF program = "main"
  THEN comparison_run(s, FRange(ranges[1]), FRange(ranges[2]), FRange(ranges[3]))
  ELSE comparison_run_streamlit(s, FRange(ranges[1]), FRange(ranges[2]),
                                FRange(ranges[3]))

\* The caller calls calculate_affordability_metrics a second time with the
\* scenario it passed before (a rerun of the page with unchanged inputs).
EvaluateAgain ==
  /\ result.op = "calculate_affordability_metrics"
  /\ previous.op = "none"
  /\ previous' = Earlier(result, derived)
  /\ result' = Call("calculate_affordability_metrics", <<>>,
                    EvaluateBy(app, scenario))
  /\ UNCHANGED <<app, scenario, derived, session>>

\* The caller calls generate_comparison_data a second time with the scenario
\* and the ranges it passed before.
CompareAgain ==
  /\ result.op = "generate_comparison_data"
  /\ previous.op = "none"
  /\ previous' = Earlier(result, derived)
  /\ Swept(result.args, CompareBy(app, scenario, result.args))
  /\ UNCHANGED <<app, scenario, session>>

Next ==
  \/ \E p \in Principals : MonthlyPayment(p)
  \/ Evaluate
  \/ Evaluate_streamlit
  \/ \E ranges \in SweepRanges : GenerateComparisons(ranges)
  \/ \E ranges \in SweepRanges_streamlit : GenerateComparisons_streamlit(ranges)
  \/ Return
  \/ EvaluateAgain
  \/ CompareAgain
  \/ PaymentBreakdownChart

Spec == Init /\ [][Next]_vars

-----------------------------------------------------------------------------
\* The page of main.py: every run of main() reads the widgets, keeps the down
\* payment and the property tax in st.session_state, evaluates the scenario
\* and sweeps around it.

\* int(x) of a finite float: the truncation toward zero.
IntOf(x) ==
  IF x.e >= 0 THEN x.m * (2 ^ x.e)
  ELSE Sgn(x.m) * (Abs(x.m) \div (2 ^ (-x.e)))

\* The literal n / d of the source (0.2 is 2 / 10), as the nearest number.
Literal(n, d) == Div(F(n), F(d))

Min(a, b) == IF a <= b THEN a ELSE b

Max(a, b) == IF a >= b THEN a ELSE b

\* The bounds of the "Home Price ($)" number_input.
MinHomePrice == 50000

MaxHomePrice == 5000000

\* The cap of the first down payment: min(1000000, int(home_price * 0.2)).
DownPaymentCap == 1000000

\* The floor of the down payment: max(1000, int(home_price * 0.03)).
DownPaymentFloor == 1000

\* The widgets' values on the first run: value=1850000, value=6.5, index=3
\* of [15, 20, 25, 30].
DefaultHomePrice == 1850000

DefaultRate == Literal(65, 10)

DefaultTerm == 30

\* <<monthly_income, monthly_debts, insurance_annual, hoa_monthly>>: the
\* values of these widgets, which the user leaves alone.
UIHousehold == <<25000, 2500, 2800, 75>>

\* Home prices the user enters.
UIHomePrices == {64000, DefaultHomePrice, 4096000}

\* Positions of the interest rate slider and of the loan term selectbox.
UIRates == {F(3), DefaultRate}

UITerms == {15, DefaultTerm}

\* Property taxes the user enters.
UIPropertyTaxes == {0, 5000}

\* The user has not touched the widget in this run.
NoEntry == -1

\* st.session_state after state.key = value.
SessionAssign(state, key, value) ==
  [k \in (DOMAIN state) \cup {key} |->
     IF k = key THEN value
     ELSE IF k = "keys" THEN state.keys \cup {key}
     ELSE state[k]]

\* The values of the home price, interest rate and loan term widgets, which
\* streamlit keeps from one run to the next.
WidgetsKept(state, home_price, interest_rate, loan_term_years) ==
  [k \in (DOMAIN state) \cup {"widgets"} |->
     IF k = "widgets"
       THEN [home_price |-> home_price, interest_rate |-> interest_rate,
             loan_term_years |-> loan_term_years]
     ELSE state[k]]

\* The page has run before.
Running == "widgets" \in DOMAIN session

\* if 'down_payment_amount' not in st.session_state: ... and the same for
\* 'property_tax_annual'.
SessionInitialised(state, home_price) ==
  LET with_down ==
        IF "down_payment_amount" \in state.keys THEN state
        ELSE SessionAssign(state, "down_payment_amount",
                           Min(DownPaymentCap,
                               IntOf(Mul(F(home_price), Literal(2, 10)))))
  IN IF "property_tax_annual" \in with_down.keys THEN with_down
     ELSE SessionAssign(with_down, "property_tax_annual",
                        IntOf(Mul(F(home_price), Literal(105, 10000))))

\* min_down_payment = max(1000, int(home_price * 0.03))
min_down_payment(home_price) ==
  Max(DownPaymentFloor, IntOf(Mul(F(home_price), Literal(3, 100))))

\* max_down_payment = int(home_price * 1)
max_down_payment(home_price) == home_price * 1

\* The session's down payment brought into [min_down_payment,
\* max_down_payment].
SessionClamped(state, home_price) ==
  IF state.down_payment_amount < min_down_payment(home_price)
    THEN SessionAssign(state, "down_payment_amount",
                       min_down_payment(home_price))
  ELSE IF state.down_payment_amount > max_down_payment(home_price)
    THEN SessionAssign(state, "down_payment_amount",
                       max_down_payment(home_price))
  ELSE state

\* Down payments the user enters between min_value and max_value: the
\* least, the greatest, three quarters of the greatest.
DownPaymentEntries(min_value, max_value) ==
  {d \in {min_value, max_value, (max_value * 3) \div 4} :
     min_value <= d /\ d <= max_value}

\* What a number_input returns: what the user entered in it, else the value
\* it is given.
NumberInput(value, entered) == IF entered = NoEntry THEN value ELSE entered

\* default_property_tax = int(home_price * 0.0105)
default_property_tax(home_price) ==
  IntOf(Mul(F(home_price), Literal(105, 10000)))

\* Mutant: the default taken only when the session has no property tax yet;
\* a property tax of an earlier home price stays.
SessionTaxUpdated_once(state, home_price) ==
  IF "property_tax_annual" \notin state.keys
    THEN SessionAssign(
           SessionAssign(state, "property_tax_annual",
                         default_property_tax(home_price)),
           "last_home_price", home_price)
  ELSE SessionAssign(state, "last_home_price", home_price)

\* The property tax default taken again when the home price is not the one
\* of the last run.
SessionTaxUpdated(state, home_price) ==
  IF \/ "property_tax_annual" \notin state.keys
     \/ "last_home_price" \notin state.keys
     \/ state.last_home_price # home_price
    THEN SessionAssign(
           SessionAssign(state, "property_tax_annual",
                         default_property_tax(home_price)),
           "last_home_price", home_price)
  ELSE state

\* scenario = MortgageScenario(home_price=home_price, ...)
UIScenario(home_price, down_payment_amount, interest_rate, loan_term_years, property_tax_annual) ==
  MortgageScenario(F(home_price), F(down_payment_amount), interest_rate,
                   loan_term_years, F(UIHousehold[1]), F(UIHousehold[2]),
                   F(property_tax_annual), F(UIHousehold[3]),
                   F(UIHousehold[4]))

\* max(1, interest_rate - 2)
RateFloor(lowered) == IF Leq(lowered, One) THEN One ELSE lowered

\* The ranges main() sweeps: price_range, rate_range, down_payment_range.
UIRanges(home_price, interest_rate) ==
  << <<Mul(F(home_price), Literal(7, 10)), Mul(F(home_price), Literal(13, 10))>>,
     <<RateFloor(Sub(interest_rate, F(2))), Add(interest_rate, F(2))>>,
     <<Mul(F(home_price), Literal(5, 100)), Mul(F(home_price), Literal(80, 100))>> >>

\* The calls of one run for the scenario built: the evaluation, and when it
\* returns, the sweep.
Displayed(built, metrics, ranges) ==
  IF metrics.raised # "none"
    THEN /\ result' = Call("calculate_affordability_metrics", <<>>, metrics)
         /\ derived' = <<>>
  ELSE Swept(ranges, comparison_run(built, ranges[1], ranges[2], ranges[3]))

\* The run from the property tax widget on: down_payment_amount is what the
\* down payment widget returned.
RunFromTax(state, home_price, interest_rate, loan_term_years, down_payment_amount, property_tax_annual) ==
  /\ session' = WidgetsKept(
                  SessionAssign(state, "property_tax_annual",
                                property_tax_annual),
                  home_price, interest_rate, loan_term_years)
  /\ scenario' = UIScenario(home_price, down_payment_amount, interest_rate,
                            loan_term_years, property_tax_annual)
  /\ Displayed(UIScenario(home_price, down_payment_amount, interest_rate,
                          loan_term_years, property_tax_annual),
               calculate_affordability_metrics(
                 UIScenario(home_price, down_payment_amount, interest_rate,
                            loan_term_years, property_tax_annual)),
               UIRanges(home_price, interest_rate))
  /\ UNCHANGED <<app, previous>>

\* The run from the down payment widget on: state is the session with the
\* down payment clamped.
RunFromDownPayment(state, home_price, interest_rate, loan_term_years, down_payment_amount, entered_tax) ==
  RunFromTax(
    SessionTaxUpdated(
      SessionAssign(state, "down_payment_amount", down_payment_amount),
      home_price),
    home_price, interest_rate, loan_term_years, down_payment_amount,
    NumberInput(
      SessionTaxUpdated(
        SessionAssign(state, "down_payment_amount", down_payment_amount),
        home_price).property_tax_annual,
      entered_tax))

\* One run of main(), from top to bottom, with the widgets as the user has
\* left them.
Run(home_price, interest_rate, loan_term_years, entered_down_payment, entered_tax) ==
  RunFromDownPayment(
    SessionClamped(SessionInitialised(session, home_price), home_price),
    home_price, interest_rate, loan_term_years,
    NumberInput(
      SessionClamped(SessionInitialised(session, home_price), home_price)
        .down_payment_amount,
      entered_down_payment),
    entered_tax)

\* The first run of the page: every widget has its default value.
FirstRun ==
  /\ ~Running
  /\ Run(DefaultHomePrice, DefaultRate, DefaultTerm, NoEntry, NoEntry)

\* The user enters another home price, and the page runs again.
ChangeHomePrice(home_price) ==
  /\ Running
  /\ MinHomePrice <= home_price /\ home_price <= MaxHomePrice
  /\ home_price # session.widgets.home_price
  /\ Run(home_price, session.widgets.interest_rate,
         session.widgets.loan_term_years, NoEntry, NoEntry)

\* The user moves the interest rate slider.
ChangeInterestRate(interest_rate) ==
  /\ Running
  /\ interest_rate # session.widgets.interest_rate
  /\ Run(session.widgets.home_price, interest_rate,
         session.widgets.loan_term_years, NoEntry, NoEntry)

\* The user selects another loan term.
ChangeLoanTerm(loan_term_years) ==
  /\ Running
  /\ loan_term_years # session.widgets.loan_term_years
  /\ Run(session.widgets.home_price, session.widgets.interest_rate,
         loan_term_years, NoEntry, NoEntry)

\* The user enters another down payment, within the bounds the widget has.
ChangeDownPayment ==
  /\ Running
  /\ \E down_payment_amount \in
         DownPaymentEntries(min_down_payment(session.widgets.home_price),
                            max_down_payment(session.widgets.home_price)) :
       /\ down_payment_amount # session.down_payment_amount
       /\ Run(session.widgets.home_price, session.widgets.interest_rate,
              session.widgets.loan_term_years, down_payment_amount, NoEntry)

\* The user enters another property tax.
ChangePropertyTax(property_tax_annual) ==
  /\ Running
  /\ property_tax_annual # session.property_tax_annual
  /\ Run(session.widgets.home_price, session.widgets.interest_rate,
         session.widgets.loan_term_years, NoEntry, property_tax_annual)

\* No scenario is built before the first run.
NoScenario == <<>>

InitUI ==
  /\ app = "main"
  /\ scenario = NoScenario
  /\ result = NoCall
  /\ derived = <<>>
  /\ previous = NoCall
  /\ session = NoSession

NextUI ==
  \/ FirstRun
  \/ \E home_price \in UIHomePrices : ChangeHomePrice(home_price)
  \/ \E interest_rate \in UIRates : ChangeInterestRate(interest_rate)
  \/ \E loan_term_years \in UITerms : ChangeLoanTerm(loan_term_years)
  \/ ChangeDownPayment
  \/ \E property_tax_annual \in UIPropertyTaxes : ChangePropertyTax(property_tax_annual)

SpecUI == InitUI /\ [][NextUI]_vars

----------------------------------------------------------------------------
(* Properties *)

Evaluated == result.op = "calculate_affordability_metrics"

Paid == result.op = "calculate_monthly_payment"

Compared == result.op = "generate_comparison_data"

ReturnedValue == result.raised = "none"

\* a > 0, a < 0 for a number of a scenario.
Positive(a) == a.k = "fin" /\ a.m > 0

Negative(a) == a.k = "fin" /\ a.m < 0

\* The scenario asks for a loan of zero or less: the down payment reaches
\* the home price (a percentage of 100 or more in streamlit_calculator.py).
NonPositiveLoan ==
  IF app = "main" THEN Leq(scenario.home_price, scenario.down_payment_amount)
  ELSE Leq(F(100), scenario.down_payment_percent)

\* The scenario invariants of the specification, one by one (with a term of
\* 1 year or more in place of the four terms the pages offer).
PriceOk == Positive(scenario.home_price)

DownPaymentOk ==
  /\ ~NonPositiveLoan
  /\ ~Negative(IF app = "main" THEN scenario.down_payment_amount
               ELSE scenario.down_payment_percent)

TermOk == scenario.loan_term_years >= 1

IncomeOk == Positive(scenario.monthly_income)

AmountsOk ==
  /\ ~Negative(scenario.interest_rate)
  /\ ~Negative(scenario.monthly_debts)
  /\ ~Negative(scenario.property_tax_annual)
  /\ ~Negative(scenario.insurance_annual)
  /\ ~Negative(scenario.hoa_monthly)

ValidScenario == PriceOk /\ DownPaymentOk /\ TermOk /\ IncomeOk /\ AmountsOk

\* C1: calculate_affordability_metrics on a scenario with home_price == 0
\* fails with InvalidInputError (it returns no metrics), in both programs.
\* Stated for scenarios whose term, income and other amounts are valid, so
\* that the zero price is what the call meets.
C1_ZeroPriceIsInvalidInput ==
  (Evaluated /\ IsZero(scenario.home_price) /\ TermOk /\ IncomeOk /\ AmountsOk)
    => result.raised = "InvalidInputError"

\* C2: calculate_affordability_metrics on a scenario whose down payment is
\* greater than or equal to its home price fails with InvalidInputError
\* instead of returning metrics of a non-positive loan amount.  Stated for
\* scenarios that are valid in everything else.
C2_NonPositiveLoanIsInvalidInput ==
  (Evaluated /\ NonPositiveLoan /\ PriceOk /\ TermOk /\ IncomeOk /\ AmountsOk)
    => result.raised = "InvalidInputError"

\* C3: calculate_affordability_metrics on a scenario with monthly_income <= 0
\* fails with InvalidInputError; a negative income never gives negative
\* ratios reported as affordable.  Stated for scenarios that are valid in
\* everything else.
C3_NonPositiveIncomeIsInvalidInput ==
  (Evaluated /\ ~IncomeOk /\ PriceOk /\ DownPaymentOk /\ TermOk /\ AmountsOk)
    => result.raised = "InvalidInputError"

\* C4: calculate_monthly_payment fails with InvalidInputError for every term
\* of zero years or less, at a zero rate and at a non-zero rate; it returns
\* no payment for such a term.
C4_NonPositiveTermIsInvalidInput ==
  (Paid /\ ~TermOk) => result.raised = "InvalidInputError"

\* A range <<min, max>> with min > max.
Descending(range) == range[1] > range[2]

\* C5: generate_comparison_data fails with InvalidInputError when one of the
\* three ranges has min > max (or when fewer than 2 points per axis are asked
\* for); it returns no sweep for such parameters.
\* Stated for a valid base scenario.
C5_MalformedSweepIsInvalidInput ==
  (/\ Compared /\ ValidScenario
   /\ (PointsPerAxis < 2 \/ \E i \in 1..3 : Descending(result.args[i])))
    => result.raised = "InvalidInputError"

\* a <= n exactly, for a finite number a and an int n in 1..127.
AtMost(a, n) ==
  IF a.m <= 0 \/ Lead(a) < 0 THEN TRUE
  ELSE IF Lead(a) >= 7 THEN FALSE
  ELSE IF a.e >= 0 THEN a.m * (2 ^ a.e) <= n
  ELSE a.m <= n * (2 ^ (-a.e))

Least(a, b, c) ==
  IF a.e <= b.e /\ a.e <= c.e THEN a.e ELSE IF b.e <= c.e THEN b.e ELSE c.e

\* The finite number a as a whole number of units of 2^lo, lo <= a.e.
Units(a, lo) == a.m * (2 ^ (a.e - lo))

\* a + b = c in exact arithmetic (no rounding of the sum).
ExactSum(a, b, c) ==
  Units(a, Least(a, b, c)) + Units(b, Least(a, b, c)) = Units(c, Least(a, b, c))

\* C7: for every valid scenario the loan amount of the metrics is the home
\* price minus the down payment amount exactly: the reported down payment
\* plus the loan amount is the home price, in both programs.
C7_LoanIsPriceLessDownPayment ==
  (Evaluated /\ ReturnedValue /\ ValidScenario)
    => ExactSum(result.value.loan_amount, result.value.down_payment,
                scenario.home_price)

\* The zero-rate call or scenario the claim C8 is about.
ZeroRate == IsZero(scenario.interest_rate)

\* payment * months = principal in exact arithmetic.
RepaysExactly(payment, months, principal) ==
  Units(payment, IF payment.e < 0 THEN payment.e ELSE 0) * months
    = principal * (2 ^ (IF payment.e < 0 THEN -payment.e ELSE 0))

\* C8 as the specification states it: at a zero rate the payment for a
\* principal P >= 0 over years >= 1 is P / (years * 12) exactly, so the
\* payment times the number of months is the principal and the
\* total_interest of a zero-rate scenario is 0.
C8_ZeroRateRepaysThePrincipalExactly ==
  /\ (Paid /\ ReturnedValue /\ ZeroRate /\ TermOk)
       => RepaysExactly(result.value, scenario.loan_term_years * 12,
                        result.args[1])
  /\ (Evaluated /\ ReturnedValue /\ ZeroRate /\ ValidScenario)
       => IsZero(result.value.total_interest)

\* The unit in the last place of a number of Precision bits, as an exponent.
UlpExp(a) == Lead(a) - Precision + 1

\* The exponent of the units in which a payment, its ulp and a whole
\* principal are all whole numbers.
PayUnit(payment) == IF UlpExp(payment) < 0 THEN UlpExp(payment) ELSE 0

\* payment is principal / months rounded to the nearest number:
\* |payment * months - principal| <= months * ulp(payment) / 2.
RoundedQuotient(payment, months, principal) ==
  2 * Abs(Units(payment, PayUnit(payment)) * months
          - principal * (2 ^ (-PayUnit(payment))))
    <= months * (2 ^ (UlpExp(payment) - PayUnit(payment)))

\* |residue| <= amount * 2^-(Precision - 2), for amount >= 0.
WithinRounding(residue, amount) ==
  LET scaled == [residue EXCEPT !.m = Abs(residue.m),
                                !.e = residue.e + Precision - 2]
  IN Units(scaled, Least(scaled, scaled, amount))
       <= Units(amount, Least(scaled, scaled, amount))

\* The loan amount is a whole multiple of the number of months.
WholeInstalments(loan_amount, months) ==
  loan_amount.e >= 0 /\ Units(loan_amount, 0) % months = 0

\* C8, amended: at a zero rate the payment for a principal P >= 0 over
\* years >= 1 is the floating-point quotient P / (years * 12), that is the
\* quotient rounded to the nearest number.  The payment times the number of
\* months is the principal, and total_interest is 0, when the principal is a
\* whole multiple of the number of months; otherwise the total_interest of a
\* zero-rate scenario is a rounding residue of at most
\* loan_amount * 2^-(Precision - 2).
C8_ZeroRateIsTheRoundedQuotient ==
  /\ (Paid /\ ReturnedValue /\ ZeroRate /\ TermOk)
       => /\ RoundedQuotient(result.value, scenario.loan_term_years * 12,
                             result.args[1])
          /\ (result.args[1] % (scenario.loan_term_years * 12) = 0
                => RepaysExactly(result.value, scenario.loan_term_years * 12,
                                 result.args[1]))
  /\ (Evaluated /\ ReturnedValue /\ ZeroRate /\ ValidScenario)
       => /\ WithinRounding(result.value.total_interest,
                            result.value.loan_amount)
          /\ (WholeInstalments(result.value.loan_amount,
                               scenario.loan_term_years * 12)
                => IsZero(result.value.total_interest))

\* A valid zero-rate scenario evaluated by main.py to a total_interest that
\* is not 0.
C8_ResidualInterest ==
  /\ Evaluated /\ ReturnedValue /\ ZeroRate /\ ValidScenario
  /\ app = "main"
  /\ ~IsZero(result.value.total_interest)

\* The records of axis k (1 price, 2 rate, 3 down payment) of a sweep.
AxisRow(data, k, i) == data[(k - 1) * PointsPerAxis + i + 1]

\* The exponent of the units in which x and the rounding allowance of a
\* sample are whole numbers.
SampleUnit(x) == IF x.e < 2 - Precision THEN x.e ELSE 2 - Precision

Larger(a, b) == IF Abs(a) >= Abs(b) THEN Abs(a) ELSE Abs(b)

\* x is min + i * (max - min) / (PointsPerAxis - 1) up to rounding:
\* they differ by at most 2^-(Precision - 2) of the larger bound.
SampleOf(x, min, max, i) ==
  /\ x.k = "fin"
  /\ Abs((PointsPerAxis - 1) * Units(x, SampleUnit(x))
         - ((PointsPerAxis - 1) * min + i * (max - min)) * (2 ^ (-SampleUnit(x))))
       <= (PointsPerAxis - 1) * Larger(min, max)
            * (2 ^ (2 - Precision - SampleUnit(x)))

\* The x-values and types of axis k are those of the range <<min, max>>.
AxisSampled(data, k, type, range) ==
  /\ \A i \in 0..(PointsPerAxis - 1) :
       /\ AxisRow(data, k, i).scenario_type = type
       /\ SampleOf(AxisRow(data, k, i).variable_value, range[1], range[2], i)
       /\ range[1] = range[2]
            => NumEq(AxisRow(data, k, i).variable_value, F(range[1]))
  /\ NumEq(AxisRow(data, k, 0).variable_value, F(range[1]))
  /\ NumEq(AxisRow(data, k, PointsPerAxis - 1).variable_value, F(range[2]))

\* C9: generate_comparison_data returns 30 records: 10 of the price axis,
\* then 10 of the rate axis, then 10 of the down payment axis; the x-values
\* of an axis are min + i * (max - min) / 9 for i = 0..9 in that order (as
\* floating-point numbers, so up to rounding), the first being min and the
\* last max, and equal bounds give 10 identical values.
C9_ThreeAxesOfTenEvenSamples ==
  (Compared /\ ReturnedValue)
    => /\ Len(result.value) = 3 * PointsPerAxis
       /\ PointsPerAxis = 10
       /\ AxisSampled(result.value, 1, "Price Variation", result.args[1])
       /\ AxisSampled(result.value, 2, "Rate Variation", result.args[2])
       /\ AxisSampled(result.value, 3, "Down Payment Variation", result.args[3])

\* A sweep of a valid scenario over three ascending ranges has returned, and
\* a sample inside the price range is no whole number.
C9_AscendingSweepReturned ==
  /\ Compared /\ ReturnedValue /\ ValidScenario
  /\ \A k \in 1..3 : result.args[k][1] < result.args[k][2]
  /\ AxisRow(result.value, 1, 1).variable_value.e < 0

\* The base scenario at the price x, with a tax of 1% of x and an insurance
\* of 0.3% of x a year.
AtPrice(base, x) ==
  [base EXCEPT !.home_price = x,
               !.property_tax_annual = Mul(x, Div(F(1), F(100))),
               !.insurance_annual = Mul(x, Div(F(3), F(1000)))]

\* C10: the metrics of every record of the price axis are those of
\* calculate_affordability_metrics on a scenario whose home_price is the
\* sampled price, whose property_tax_annual is 1% and whose insurance_annual
\* is 0.3% of the sampled price, whatever the tax and insurance of the base
\* scenario; in both programs.
C10_PriceAxisRecomputesTaxAndInsurance ==
  (Compared /\ ReturnedValue)
    => \A i \in 0..(PointsPerAxis - 1) :
         /\ EvaluateBy(app, AtPrice(scenario,
                 AxisRow(result.value, 1, i).variable_value)).raised = "none"
         /\ AxisRow(result.value, 1, i)
              = ComparisonRow("Price Variation",
                  AxisRow(result.value, 1, i).variable_value,
                  EvaluateBy(app, AtPrice(scenario,
                    AxisRow(result.value, 1, i).variable_value)).value)

\* A sweep has returned for a valid base scenario whose own tax and
\* insurance are not 1% and 0.3% of its price.
C10_BaseCostsDiffer ==
  /\ Compared /\ ReturnedValue /\ ValidScenario
  /\ Positive(scenario.property_tax_annual)
  /\ Positive(scenario.insurance_annual)
  /\ scenario.property_tax_annual # AtPrice(scenario, scenario.home_price).property_tax_annual
  /\ scenario.insurance_annual # AtPrice(scenario, scenario.home_price).insurance_annual

\* The field a program keeps the down payment in.
DownPaymentField ==
  IF app = "main" THEN "down_payment_amount" ELSE "down_payment_percent"

\* The fields the loop that builds derived scenario number i sets anew.
SweptFields(i) ==
  IF i <= PointsPerAxis
  THEN {"home_price", "property_tax_annual", "insurance_annual"}
  ELSE IF i <= 2 * PointsPerAxis THEN {"interest_rate"}
  ELSE {DownPaymentField}

\* C11: in every derived scenario of generate_comparison_data, every field
\* other than the swept one (and, on the price axis, property_tax_annual and
\* insurance_annual) is the field of the base scenario.
C11_OtherFieldsCopiedFromBase ==
  Compared
    => \A i \in 1..Len(derived) :
         /\ DOMAIN derived[i] = DOMAIN scenario
         /\ \A f \in (DOMAIN scenario) \ SweptFields(i) :
              derived[i][f] = scenario[f]

\* A sweep of a base scenario with debts, tax and HOA has built all its 30
\* scenarios, the first of them at another price than the base's.
C11_SweepOfAFullScenario ==
  /\ Compared /\ ReturnedValue /\ ValidScenario
  /\ Len(derived) = 3 * PointsPerAxis
  /\ Positive(scenario.monthly_debts)
  /\ Positive(scenario.property_tax_annual)
  /\ Positive(scenario.hoa_monthly)
  /\ ~NumEq(derived[1].home_price, scenario.home_price)
  /\ ~NumEq(derived[2 * PointsPerAxis].interest_rate, scenario.interest_rate)

\* monthly P&I + property_tax_annual / 12 + insurance_annual / 12 + hoa_monthly
SumOfComponents(s, monthly_pi) ==
  Add(Add(Add(monthly_pi, Div(s.property_tax_annual, F(12))),
          Div(s.insurance_annual, F(12))),
      s.hoa_monthly)

\* C12: for every valid scenario the metrics hold total_monthly_payment =
\* monthly P&I + property_tax_annual/12 + insurance_annual/12 + hoa_monthly,
\* front_end_ratio = total_monthly_payment / monthly_income * 100 and
\* back_end_ratio = (total_monthly_payment + monthly_debts) / monthly_income
\* * 100, so that back_end_ratio >= front_end_ratio (monthly_debts >= 0 in
\* a valid scenario).
C12_TotalAndRatios ==
  (Evaluated /\ ReturnedValue /\ ValidScenario)
    => /\ NumEq(result.value.total_monthly_payment,
                SumOfComponents(scenario, result.value.monthly_pi))
       /\ NumEq(result.value.front_end_ratio,
                Mul(Div(result.value.total_monthly_payment,
                        scenario.monthly_income), F(100)))
       /\ NumEq(result.value.back_end_ratio,
                Mul(Div(Add(result.value.total_monthly_payment,
                            scenario.monthly_debts),
                        scenario.monthly_income), F(100)))
       /\ Leq(result.value.front_end_ratio, result.value.back_end_ratio)

\* A valid scenario with debts, tax, insurance and HOA has been evaluated,
\* to a back-end ratio above its front-end ratio.
C12_AllComponentsPresent ==
  /\ Evaluated /\ ReturnedValue /\ ValidScenario
  /\ Positive(scenario.monthly_debts)
  /\ Positive(scenario.property_tax_annual)
  /\ Positive(scenario.insurance_annual)
  /\ Positive(scenario.hoa_monthly)
  /\ Positive(result.value.monthly_pi)
  /\ ~Leq(result.value.back_end_ratio, result.value.front_end_ratio)

\* a < b for finite numbers.
Less(a, b) == ~Leq(b, a)

\* The least number of Precision bits above a positive number a.
NextAbove(a) == Add(a, [a EXCEPT !.m = 1, !.e = UlpExp(a)])

\* Prices above the price of s: the next number, one more and sixty more.
HigherPrices(s) ==
  {NextAbove(s.home_price), Add(s.home_price, F(1)), Add(s.home_price, F(60))}

\* The metrics main.py gives the scenario s at the price p.
MetricsAtPrice(s, p) ==
  calculate_affordability_metrics([s EXCEPT !.home_price = p]).value

\* Both the loan amount and the monthly P&I of lower are below those of higher.
BothLarger(lower, higher) ==
  /\ Less(lower.loan_amount, higher.loan_amount)
  /\ Less(lower.monthly_pi, higher.monthly_pi)

\* C13 as the specification states it: of two valid scenarios of main.py
\* that differ only in home_price, the one with the larger home_price has a
\* strictly larger loan_amount and a strictly larger monthly P&I.
C13_StrictlyIncreasingInPrice ==
  (Evaluated /\ ReturnedValue /\ ValidScenario /\ app = "main")
    => \A p \in HigherPrices(scenario) :
         BothLarger(result.value, MetricsAtPrice(scenario, p))

\* higher - lower > lower * 2^-(Precision - 3): the two positive numbers
\* differ by more than the rounding of a few operations.
ClearlyAbove(lower, higher) ==
  ~WithinRounding([Sub(higher, lower) EXCEPT !.e = @ - 1], lower)

\* The loan amount grows with the price, the monthly P&I does not fall, and
\* it grows when the loan amounts differ by more than rounding.
LargerUpToRounding(lower, higher) ==
  /\ Less(lower.loan_amount, higher.loan_amount)
  /\ Leq(lower.monthly_pi, higher.monthly_pi)
  /\ ClearlyAbove(lower.loan_amount, higher.loan_amount)
       => Less(lower.monthly_pi, higher.monthly_pi)

\* C13, amended: of two valid scenarios of main.py that differ only in
\* home_price, the one with the larger home_price has a strictly larger
\* loan_amount and a monthly P&I that is not smaller; the monthly P&I is
\* strictly larger when the two loan amounts differ by more than the
\* rounding of the payment formula (a relative difference of
\* 2^-(Precision - 3)), and may be equal for prices a unit in the last
\* place apart.
C13_IncreasingInPriceUpToRounding ==
  (Evaluated /\ ReturnedValue /\ ValidScenario /\ app = "main")
    => \A p \in HigherPrices(scenario) :
         LargerUpToRounding(result.value, MetricsAtPrice(scenario, p))

\* A valid scenario of main.py has been evaluated whose monthly P&I is that
\* of the next price above, and below that of a price sixty higher.
C13_SamePaymentAtTheNextPrice ==
  /\ Evaluated /\ ReturnedValue /\ ValidScenario /\ app = "main"
  /\ NumEq(result.value.monthly_pi,
           MetricsAtPrice(scenario, NextAbove(scenario.home_price)).monthly_pi)
  /\ ClearlyAbove(result.value.loan_amount,
                  MetricsAtPrice(scenario, Add(scenario.home_price, F(60))).loan_amount)
  /\ Less(result.value.monthly_pi,
          MetricsAtPrice(scenario, Add(scenario.home_price, F(60))).monthly_pi)

\* Annual rates above the rate r: an eighth of a percent more, one percent more.
HigherRates(r) == {Add(r, Div(F(1), F(8))), Add(r, F(1))}

\* The call returns a payment above the payment lower.
PaysMoreThan(lower, payment) == payment.k = "fin" /\ Less(lower, payment)

\* C14: for a positive principal and a term of 1 year or more,
\* calculate_monthly_payment is strictly increasing in the annual rate over
\* all rates >= 0, the step from the zero rate of the straight-line branch to
\* a positive rate included.
C14_StrictlyIncreasingInRate ==
  (/\ Paid /\ ReturnedValue /\ TermOk
   /\ ~Negative(scenario.interest_rate) /\ result.args[1] > 0)
    => \A r \in HigherRates(scenario.interest_rate) :
         PaysMoreThan(result.value,
                      calculate_monthly_payment(F(result.args[1]), r,
                                                scenario.loan_term_years))

\* The call made last repeats an earlier one.
Repeated == previous.op # "none"

OfferedTerms == {15, 20, 25, 30}

\* The scenario is valid with one of the offered terms.
ValidOfferedScenario ==
  ValidScenario /\ scenario.loan_term_years \in OfferedTerms

\* C16: calculate_affordability_metrics raises no error for a scenario that
\* satisfies the scenario invariants (home_price > down payment >= 0,
\* monthly_income > 0, interest_rate >= 0, a term of 15, 20, 25 or 30 years,
\* other amounts >= 0): it returns the metrics, at the rate of the scenario
\* and at any higher rate.
C16_NoErrorForValidScenarios ==
  (Evaluated /\ ValidOfferedScenario)
    => /\ ReturnedValue
       /\ \A r \in HigherRates(scenario.interest_rate) :
            EvaluateBy(app, [scenario EXCEPT !.interest_rate = r]).raised
              = "none"

\* The scenario of main.py that corresponds to the scenario s of
\* streamlit_calculator.py: down_payment_amount = home_price *
\* down_payment_percent / 100.
Corresponding(s) ==
  MortgageScenario(s.home_price,
                   Div(Mul(s.home_price, s.down_payment_percent), F(100)),
                   s.interest_rate, s.loan_term_years, s.monthly_income,
                   s.monthly_debts, s.property_tax_annual, s.insurance_annual,
                   s.hoa_monthly)

\* What the claim C17 compares of two evaluations.
ComparedMetrics ==
  {"loan_amount", "monthly_pi", "total_monthly_payment", "front_end_ratio",
   "back_end_ratio", "affordable"}

\* Two outcomes of calculate_affordability_metrics with the same metrics.
SameMetrics(a, b) ==
  /\ a.raised = "none" /\ b.raised = "none"
  /\ \A f \in ComparedMetrics : a.value[f] = b.value[f]

\* The scenario s with no down payment, and s itself.
WithAndWithoutDownPayment(s) ==
  {s, [s EXCEPT !.down_payment_percent = F(0)]}

\* The two engines give different metrics at the price x for the scenario s
\* of streamlit_calculator.py and the scenario of main.py corresponding to it.
DifferAtPrice(s, x) ==
  ~SameMetrics(
     calculate_affordability_metrics_streamlit(PriceScenario_streamlit(s, x)),
     calculate_affordability_metrics(PriceScenario(Corresponding(s), x)))

\* C17 as stated: on one evaluation of corresponding scenarios the two
\* engines return the same loan amount, payments, ratios and affordable
\* flag, while on the price axis of a sweep over the same range their
\* metrics differ at every sampled price other than the base price.
C17_SameEvaluationDifferentPriceAxis ==
  /\ (Evaluated /\ ReturnedValue /\ ValidScenario /\ app = "streamlit")
       => SameMetrics(result,
                      calculate_affordability_metrics(Corresponding(scenario)))
  /\ (Compared /\ ReturnedValue /\ ValidScenario /\ app = "streamlit")
       => \A s \in WithAndWithoutDownPayment(scenario) :
            \A i \in 0..(PointsPerAxis - 1) :
              ~NumEq(AxisRow(result.value, 1, i).variable_value, s.home_price)
                => DifferAtPrice(s, AxisRow(result.value, 1, i).variable_value)

\* The numbers among the compared metrics.
ComparedNumbers == ComparedMetrics \ {"affordable"}

\* |a - b| <= b * 2^-(Precision - 4), for b > 0: equal up to the rounding of
\* a few operations.
Close(a, b) == WithinRounding([Sub(a, b) EXCEPT !.e = @ - 2], b)

\* Two outcomes of calculate_affordability_metrics with the same metrics up
\* to rounding.
CloseMetrics(a, b) ==
  /\ a.raised = "none" /\ b.raised = "none"
  /\ \A f \in ComparedNumbers : Close(a.value[f], b.value[f])

\* The difference the two engines make at the price x, (x - home_price) *
\* down_payment_percent / 100, is above the rounding of the loan amount:
\* |x - home_price| * down_payment_percent * 2^(Precision - 3) > 100 * x.
PriceGapShows(s, x) ==
  /\ Positive(x)
  /\ ~WithinRounding(
        [Mul(Sub(x, s.home_price), s.down_payment_percent) EXCEPT !.e = @ - 1],
        Mul(x, F(100)))

\* C17, amended: on one evaluation of corresponding scenarios the two
\* engines return the same loan amount, payments and ratios up to rounding
\* only (the same, affordable flag included, when the loan amount and the
\* down payment of streamlit_calculator.py add up to the price exactly).  On
\* the price axis of a sweep over the same range their metrics differ at
\* every sampled price at which the difference of the two loan amounts,
\* (price - base price) * percent / 100, is above rounding; with no down
\* payment they are the same at every sampled price above 0.
C17_SameUpToRoundingDifferentPriceAxis ==
  /\ (Evaluated /\ ReturnedValue /\ ValidScenario /\ app = "streamlit")
       => /\ CloseMetrics(
               result, calculate_affordability_metrics(Corresponding(scenario)))
          /\ ExactSum(result.value.loan_amount, result.value.down_payment,
                      scenario.home_price)
               => SameMetrics(
                    result,
                    calculate_affordability_metrics(Corresponding(scenario)))
  /\ (Compared /\ ReturnedValue /\ ValidScenario /\ app = "streamlit")
       => \A i \in 0..(PointsPerAxis - 1) :
            /\ PriceGapShows(scenario, AxisRow(result.value, 1, i).variable_value)
                 => DifferAtPrice(scenario,
                                  AxisRow(result.value, 1, i).variable_value)
            /\ Positive(AxisRow(result.value, 1, i).variable_value)
                 => ~DifferAtPrice(
                       [scenario EXCEPT !.down_payment_percent = F(0)],
                       AxisRow(result.value, 1, i).variable_value)

\* A valid scenario evaluated by streamlit_calculator.py to a loan amount
\* that is not the loan amount main.py gives the corresponding scenario.
C17_LoanAmountsApart ==
  /\ Evaluated /\ ReturnedValue /\ ValidScenario /\ app = "streamlit"
  /\ ~NumEq(result.value.loan_amount,
            calculate_affordability_metrics(Corresponding(scenario))
              .value.loan_amount)

Charted == result.op = "create_payment_breakdown_chart"

\* The pie has a slice with this label and this value.
Shown(chart, label, value) ==
  \E i \in 1..Len(chart) : chart[i].label = label /\ chart[i].value = value

\* The four monthly cost components of the evaluated scenario: principal &
\* interest, property tax and insurance as in the metrics, HOA as in the
\* scenario.
CostComponents(s, metrics) ==
  << [label |-> "Principal & Interest", value |-> metrics.monthly_pi],
     [label |-> "Property Tax", value |-> metrics.monthly_property_tax],
     [label |-> "Insurance", value |-> metrics.monthly_insurance],
     [label |-> "HOA", value |-> s.hoa_monthly] >>

\* C18: the payment breakdown pie chart built from a metrics record shows
\* every one of the four monthly cost components (principal & interest,
\* property tax, insurance, HOA) whose value is greater than 0 in the
\* evaluated scenario as a slice with that value; in particular HOA is shown
\* whenever hoa_monthly > 0.
C18_EveryPositiveComponentShown ==
  (Charted /\ ValidScenario) =>
    \A i \in 1..4 :
      GreaterThanZero(CostComponents(scenario, result.args[1])[i].value)
        => Shown(result.value,
                 CostComponents(scenario, result.args[1])[i].label,
                 CostComponents(scenario, result.args[1])[i].value)

\* The Scenario invariant home_price > down_payment >= 0 of a scenario of
\* main.py.
PositiveLoan(s) ==
  /\ Less(s.down_payment_amount, s.home_price)
  /\ Leq(F(0), s.down_payment_amount)

\* C19: in main.py, after any sequence of page runs in which the user
\* changes the home price and the down payment within the widgets' bounds,
\* the scenario passed to calculate_affordability_metrics has home_price >
\* down_payment >= 0.
C19_ScenarioPassedHasPositiveLoan ==
  (Running /\ result.op # "none") => PositiveLoan(scenario)

\* The derived scenarios of the price axis and of the down payment axis.
PriceAndDownPaymentSamples ==
  {i \in 1..Len(derived) :
     i <= PointsPerAxis \/ i > 2 * PointsPerAxis}

\* C20: in main.py, every derived scenario of the price axis and of the down
\* payment axis of the sweep that main() starts has home_price >
\* down_payment >= 0, that is a strictly positive loan amount.
C20_SweptScenariosHavePositiveLoan ==
  (Running /\ Compared)
    => \A i \in PriceAndDownPaymentSamples : PositiveLoan(derived[i])

\* The run that ends in the next state is at another home price than the
\* last run, or is the first run.
AnotherHomePrice ==
  ~Running \/ session'.widgets.home_price # session.last_home_price

\* Between the two states the user has touched another widget than the
\* property tax: the home price, the rate, the term or the down payment.
OtherWidgetTouched ==
  \/ session'.widgets # session.widgets
  \/ session'.down_payment_amount # session.down_payment_amount

\* C21: in main.py, across any sequence of page runs, the session's
\* property_tax_annual is the default int(home_price * 0.0105) after every
\* run whose home price differs from the last run's (whatever the user had
\* entered before); after a run at the same home price it is the value the
\* user entered: the one entered for this run, else the one the session had;
\* and after each run last_home_price is the home price of the run.  The
\* property tax of the session is the one passed into the scenario.
C21_PropertyTaxResetOnNewHomePrice ==
  [][ /\ session'.last_home_price = session'.widgets.home_price
      /\ scenario'.home_price = F(session'.widgets.home_price)
      /\ scenario'.property_tax_annual = F(session'.property_tax_annual)
      /\ AnotherHomePrice
           => session'.property_tax_annual
                = default_property_tax(session'.widgets.home_price)
      /\ (~AnotherHomePrice /\ OtherWidgetTouched)
           => session'.property_tax_annual = session.property_tax_annual
      /\ (~AnotherHomePrice /\ ~OtherWidgetTouched)
           => /\ session'.property_tax_annual \in UIPropertyTaxes
              /\ session'.property_tax_annual # session.property_tax_annual
    ]_vars

\* A run has left in the session a property tax the user entered, which is
\* not the default of the home price, at a rate or a term chosen as well.
C21_EnteredPropertyTaxKept ==
  /\ Running
  /\ session.property_tax_annual \in UIPropertyTaxes
  /\ session.property_tax_annual
       # default_property_tax(session.widgets.home_price)
  /\ session.last_home_price = session.widgets.home_price
  /\ session.widgets.home_price # DefaultHomePrice
  /\ session.widgets.interest_rate # DefaultRate

====
